---- MODULE Spec2Model ----
(***************************************************************************)
(* recover-mscz: carving of MuseScore .mscz (ZIP) archives out of a raw    *)
(* byte stream.  The model follows src/recover-mscz.py: the chunk loop of  *)
(* main, the handling of one EOCD match, get_mscx_filename and             *)
(* get_safe_to_save_path.  Offsets are 0-based as in the Python source;    *)
(* byte strings and text are tuples of numbers (bytes / code points).      *)
(***************************************************************************)
EXTENDS Integers, Sequences, FiniteSets, TLC

VARIABLES
    data,         \* the bytes of the input file (args.file_path)
    seek,         \* args.seek
    chunk_size,   \* args.chunk_size
    parse_len,    \* args.parse_len, None when the option is absent
    dirs,         \* sub-directories that exist below args.output_dir
    files0,       \* the files of args.output_dir when the run starts
    files,        \* the files of args.output_dir: path -> content
    pc,           \* position of main: Start, Loop, Matches, Done, Aborted
    exc,          \* the uncaught exception that ended main, or NoExc
    file_size,    \* main's file_size
    parse_size,   \* main's parse_size (the total of the progress bar)
    chunk_start,  \* main's chunk_start
    chunk_end,    \* main's chunk_end, None before the first read
    chunk,        \* main's chunk, the bytes of the last chunk read
    matches,      \* m.start() of the matches the for loop has still to visit
    fpos,         \* f.tell(), the position of the input file handle
    reads,        \* history: <<chunk_start, chunk_end>> of every chunk read
    log,          \* history: one record per EOCD match the for loop visited
    run,          \* the number of this run of the program over the input
    prev          \* history: what the run before this one did, or NoPrev

vars == <<data, seek, chunk_size, parse_len, dirs, files0, files, pc, exc,
          file_size, parse_size, chunk_start, chunk_end, chunk, matches,
          fpos, reads, log, run, prev>>

None == -1

NoExc == [type |-> "none", line |-> 0]

Min(a, b) == IF a < b THEN a ELSE b

(***************************************************************************)
(* Byte strings.                                                           *)
(***************************************************************************)

\* Python b[lo:hi] for 0 <= lo: clipped at the end of b, never an error.
Slice(b, lo, hi) == SubSeq(b, lo + 1, Min(hi, Len(b)))

\* zipfile.stringEndArchive, b"PK\005\006"
stringEndArchive == <<80, 75, 5, 6>>

\* zipfile.stringFileHeader, b"PK\003\004"
stringFileHeader == <<80, 75, 3, 4>>

\* zipfile.sizeEndCentDir = struct.calcsize("<4s4H2LH")
sizeEndCentDir == 22

\* zipfile.sizeFileHeader = struct.calcsize("<4s2B4HL2L2H")
sizeFileHeader == 30

\* struct "<H" and "<L" fields at byte offset off of buf (little-endian)
U16(buf, off) == buf[off + 1] + 256 * buf[off + 2]

U32(buf, off) == U16(buf, off) + 65536 * U16(buf, off + 2)

\* the pattern occurs in buf at 0-based position i
MatchAt(buf, pat, i) ==
    /\ i >= 0
    /\ i + Len(pat) <= Len(buf)
    /\ \A k \in 1..Len(pat) : buf[i + k] = pat[k]

RECURSIVE SortedSeq(_)
SortedSeq(S) ==
    IF S = {} THEN <<>>
    ELSE LET m == CHOOSE x \in S : \A y \in S : x <= y
         IN  <<m>> \o SortedSeq(S \ {m})

\* keep the occurrences that start at or after the end of the last one kept
RECURSIVE NonOverlapping(_, _, _)
NonOverlapping(occ, n, from) ==
    IF occ = <<>> THEN <<>>
    ELSE IF Head(occ) >= from
         THEN <<Head(occ)>> \o NonOverlapping(Tail(occ), n, Head(occ) + n)
         ELSE NonOverlapping(Tail(occ), n, from)

\* [m.start() for m in re.finditer(pat, buf)]: ascending, non-overlapping
finditer(pat, buf) ==
    NonOverlapping(
        SortedSeq({i \in 0..(Len(buf) - Len(pat)) : MatchAt(buf, pat, i)}),
        Len(pat), 0)

(***************************************************************************)
(* UTF-8 decoding, bytes.decode('utf-8') in strict mode.                    *)
(***************************************************************************)

IsCont(b) == b >= 128 /\ b <= 191

\* the number of bytes of the well-formed UTF-8 sequence at the head of b,
\* 0 when the head is not a well-formed sequence
Utf8Width(b) ==
    LET b1 == b[1]
        c(k) == Len(b) >= k /\ IsCont(b[k])
    IN  IF b1 <= 127 THEN 1
        ELSE IF b1 >= 194 /\ b1 <= 223 /\ c(2) THEN 2
        ELSE IF b1 >= 224 /\ b1 <= 239 /\ c(2) /\ c(3)
                /\ (b1 = 224 => b[2] >= 160) /\ (b1 = 237 => b[2] <= 159)
             THEN 3
        ELSE IF b1 >= 240 /\ b1 <= 244 /\ c(2) /\ c(3) /\ c(4)
                /\ (b1 = 240 => b[2] >= 144) /\ (b1 = 244 => b[2] <= 143)
             THEN 4
        ELSE 0

Utf8CodePoint(b, w) ==
    IF w = 1 THEN b[1]
    ELSE IF w = 2 THEN (b[1] - 192) * 64 + (b[2] - 128)
    ELSE IF w = 3 THEN (b[1] - 224) * 4096 + (b[2] - 128) * 64 + (b[3] - 128)
    ELSE (b[1] - 240) * 262144 + (b[2] - 128) * 4096
         + (b[3] - 128) * 64 + (b[4] - 128)

RECURSIVE Utf8Valid(_)
Utf8Valid(b) ==
    IF b = <<>> THEN TRUE
    ELSE LET w == Utf8Width(b)
         IN  w > 0 /\ Utf8Valid(SubSeq(b, w + 1, Len(b)))

\* the code points of a valid byte string
RECURSIVE Utf8Decode(_)
Utf8Decode(b) ==
    IF b = <<>> THEN <<>>
    ELSE LET w == Utf8Width(b)
         IN  <<Utf8CodePoint(b, w)>> \o Utf8Decode(SubSeq(b, w + 1, Len(b)))

(***************************************************************************)
(* get_mscx_filename                                                       *)
(***************************************************************************)

\* zipfile._FH_FILENAME_LENGTH is field 10 of "<4s2B4HL2L2H": bytes +26, +27
FH_FILENAME_LENGTH_at == 26

\* The outcome of get_mscx_filename(archive):
\*   kind "none"  - returns None (fewer than two local file headers)
\*   kind "str"   - returns the decoded name, value
\*   kind "raise" - an exception leaves the function
get_mscx_filename(archive) ==
    LET hdrs == finditer(stringFileHeader, archive)
    IN  IF Len(hdrs) < 2
        THEN [kind |-> "none", value |-> <<>>, exc |-> NoExc]
        ELSE
          LET h_start == hdrs[2]
              h_end == h_start + sizeFileHeader
              buffer == Slice(archive, h_start, h_end)
          IN  IF Len(buffer) < sizeFileHeader
              THEN [kind |-> "raise", value |-> <<>>,
                    exc |-> [type |-> "struct.error", line |-> 60]]
              ELSE
                LET file_name ==
                        Slice(archive, h_end,
                              h_end + U16(buffer, FH_FILENAME_LENGTH_at))
                IN  IF Utf8Valid(file_name)
                    THEN [kind |-> "str", value |-> Utf8Decode(file_name),
                          exc |-> NoExc]
                    ELSE [kind |-> "raise", value |-> file_name,
                          exc |-> [type |-> "UnicodeDecodeError",
                                   line |-> 65]]

(***************************************************************************)
(* pathlib: a path is the tuple of its parts, as Path(...).parts; a        *)
(* relative path is taken below args.output_dir.                           *)
(***************************************************************************)

RECURSIVE SplitOn(_, _)
SplitOn(s, sep) ==
    IF \A i \in 1..Len(s) : s[i] # sep THEN <<s>>
    ELSE LET i == CHOOSE j \in 1..Len(s) :
                      s[j] = sep /\ \A k \in 1..(j - 1) : s[k] # sep
         IN  <<SubSeq(s, 1, i - 1)>> \o SplitOn(SubSeq(s, i + 1, Len(s)), sep)

\* Path(name).parts: split on '/', empty and '.' components dropped, a
\* leading '/' kept as the root part
PathParts(name) ==
    LET raw == SplitOn(name, 47)
        keep == SelectSeq(raw, LAMBDA c : c # <<>> /\ c # <<46>>)
    IN  IF name # <<>> /\ name[1] = 47 THEN <<(<<47>>)>> \o keep ELSE keep

\* Path.name: the last part, empty for '' and for the root
PathName(path) ==
    IF path = <<>> \/ path = <<(<<47>>)>> THEN <<>> ELSE path[Len(path)]

\* the index of the last '.' of a name when it starts a suffix, else 0:
\* name.rfind('.') with 0 < i < len(name) - 1 (0-based i)
SuffixDot(name) ==
    LET dots == {i \in 1..Len(name) : name[i] = 46}
    IN  IF dots = {} THEN 0
        ELSE LET i == CHOOSE d \in dots : \A e \in dots : e <= d
             IN  IF i > 1 /\ i < Len(name) THEN i ELSE 0

\* Path.suffix
PathSuffix(path) ==
    LET name == PathName(path)
        i == SuffixDot(name)
    IN  IF i = 0 THEN <<>> ELSE SubSeq(name, i, Len(name))

\* Path.stem
PathStem(path) ==
    LET name == PathName(path)
        i == SuffixDot(name)
    IN  IF i = 0 THEN name ELSE SubSeq(name, 1, i - 1)

\* Path.with_name, for a path with a non-empty name
WithName(path, name) == SubSeq(path, 1, Len(path) - 1) \o <<name>>

\* Path.with_suffix
WithSuffix(path, suffix) == WithName(path, PathStem(path) \o suffix)

\* Path.with_stem
WithStem(path, stem) == WithName(path, stem \o PathSuffix(path))

\* args.output_dir / file_path: an absolute file_path replaces output_dir
JoinOutputDir(file_path) == file_path

\* Path.parent
PathParent(path) == SubSeq(path, 1, Len(path) - 1)

(***************************************************************************)
(* get_safe_to_save_path                                                   *)
(***************************************************************************)

IsDigit(c) == c >= 48 /\ c <= 57

\* int(digits) for a non-empty run of ASCII digits
RECURSIVE DigitsToInt(_)
DigitsToInt(d) ==
    IF d = <<>> THEN 0
    ELSE 10 * DigitsToInt(SubSeq(d, 1, Len(d) - 1)) + (d[Len(d)] - 48)

\* str(n) for n >= 0
RECURSIVE IntToDigits(_)
IntToDigits(n) ==
    IF n < 10 THEN <<48 + n>>
    ELSE IntToDigits(n \div 10) \o <<48 + (n % 10)>>

\* the end (exclusive, 1-based) of the maximal digit run that starts at i
RECURSIVE DigitRunEnd(_, _)
DigitRunEnd(s, i) ==
    IF i <= Len(s) /\ IsDigit(s[i]) THEN DigitRunEnd(s, i + 1) ELSE i

\* re.sub(r'(?<=_\()\d+(?=\))', lambda m: str(int(m.group(0)) + 1), s),
\* scanning from 1-based position i
RECURSIVE SubCounters(_, _)
SubCounters(s, i) ==
    IF i > Len(s) THEN <<>>
    ELSE
      LET j == DigitRunEnd(s, i)
          hit == /\ i >= 3
                 /\ s[i - 2] = 95
                 /\ s[i - 1] = 40
                 /\ j > i
                 /\ j <= Len(s)
                 /\ s[j] = 41
      IN  IF hit
          THEN IntToDigits(DigitsToInt(SubSeq(s, i, j - 1)) + 1)
               \o SubCounters(s, j)
          ELSE <<s[i]>> \o SubCounters(s, i + 1)

\* Path.is_file() in the file system fs
IsFile(path, fs) == path \in DOMAIN fs

\* the renaming that appends '_(1)' at every collision
RECURSIVE get_safe_to_save_path_stacking(_, _)
get_safe_to_save_path_stacking(path, fs) ==
    IF ~IsFile(path, fs) THEN path
    ELSE get_safe_to_save_path_stacking(
             WithStem(path, PathStem(path) \o <<95, 40, 49, 41>>), fs)

\* the renaming done once, the new path not looked up again
get_safe_to_save_path_once(path, fs) ==
    IF ~IsFile(path, fs) THEN path
    ELSE
      LET stem == PathStem(path)
          sub_stem == SubCounters(stem, 1)
          new_stem == IF sub_stem = stem
                      THEN stem \o <<95, 40, 49, 41>>
                      ELSE sub_stem
      IN  WithStem(path, new_stem)

RECURSIVE get_safe_to_save_path(_, _)
get_safe_to_save_path(path, fs) ==
    IF ~IsFile(path, fs) THEN path
    ELSE
      LET stem == PathStem(path)
          sub_stem == SubCounters(stem, 1)
          new_stem == IF sub_stem = stem
                      THEN stem \o <<95, 40, 49, 41>>
                      ELSE sub_stem
      IN  get_safe_to_save_path(WithStem(path, new_stem), fs)

(***************************************************************************)
(* main: the handling of one EOCD match (the body of the for loop)         *)
(***************************************************************************)

\* struct.unpack(zipfile.structEndArchive, buffer) of a 22-byte buffer:
\* "<4s4H2LH", the fields _ECD_ENTRIES_THIS_DISK (3), _ECD_ENTRIES_TOTAL (4),
\* _ECD_SIZE (5), _ECD_OFFSET (6) and _ECD_COMMENT_SIZE (7)
UnpackEndArchive(buffer) ==
    [entries_this_disk |-> U16(buffer, 8),
     entries_total     |-> U16(buffer, 10),
     size              |-> U32(buffer, 12),
     offset            |-> U32(buffer, 16),
     comment_size      |-> U16(buffer, 20)]

\* the quick check with the comparison to 3 left out
is_mscz_candidate_equal_counts(ecd) ==
    ecd.entries_this_disk = ecd.entries_total

\* the quick check: ENTRIES_THIS_DISK == ENTRIES_TOTAL == 3
is_mscz_candidate(ecd) ==
    ecd.entries_this_disk = ecd.entries_total /\ ecd.entries_total = 3

\* the size without the length of the comment
archive_size_of_no_comment(ecd) ==
    ecd.size + ecd.offset + sizeEndCentDir

\* archive_size of a decoded EOCD record
archive_size_of(ecd) ==
    ecd.size + ecd.offset + ecd.comment_size + sizeEndCentDir

\* '.mscx' and '.mscz'
MscxSuffix == <<46, 109, 115, 99, 120>>

MsczSuffix == <<46, 109, 115, 99, 122>>

\* open(output_path, 'wb'): the exception it raises, or NoExc
OpenForWrite(path, ds) ==
    IF path \in ds \/ PathName(path) = <<>>
    THEN [type |-> "IsADirectoryError", line |-> 251]
    ELSE IF PathParent(path) # <<>> /\ PathParent(path) \notin ds
    THEN [type |-> "FileNotFoundError", line |-> 251]
    ELSE NoExc

Outcome(kind, why, e, pos, start, size, path, archive) ==
    [kind |-> kind, why |-> why, exc |-> e, fpos |-> pos, start |-> start,
     size |-> size, path |-> path, archive |-> archive]

\* One iteration of `for m in re.finditer(zipfile.stringEndArchive, chunk)`
\* for the match at absolute offset p = chunk_start + m.start(), on the
\* input bytes d, with the output files fs and directories ds.
\*   kind "skip"  - the iteration ends without output (continue / no name /
\*                  wrong suffix)
\*   kind "save"  - archive is written to path
\*   kind "raise" - an exception leaves main
HandleMatch(d, p, fs, ds) ==
    LET buffer == Slice(d, p, p + sizeEndCentDir)
        pos1 == p + Len(buffer)
    IN  IF Len(buffer) < sizeEndCentDir
        THEN Outcome("raise", "eocd", [type |-> "struct.error", line |-> 203],
                     pos1, None, None, <<>>, <<>>)
        ELSE
        LET ecd == UnpackEndArchive(buffer) IN
        IF ~is_mscz_candidate(ecd)
        THEN Outcome("skip", "count", NoExc, pos1, None, None, <<>>, <<>>)
        ELSE
        LET archive_size == archive_size_of(ecd)
            start == pos1 - archive_size
        IN
        IF start < 0
        THEN Outcome("raise", "span", [type |-> "OSError", line |-> 220],
                     pos1, start, archive_size, <<>>, <<>>)
        ELSE
        LET archive == Slice(d, start, start + archive_size)
            pos2 == start + Len(archive)
            fn == get_mscx_filename(archive)
        IN
        IF fn.kind = "raise"
        THEN Outcome("raise", "name", fn.exc, pos2, start, archive_size,
                     <<>>, archive)
        ELSE IF fn.kind = "none"
        THEN Outcome("skip", "noname", NoExc, pos2, start, archive_size,
                     <<>>, archive)
        ELSE
        LET file_path == PathParts(fn.value) IN
        IF PathSuffix(file_path) # MscxSuffix
        THEN Outcome("skip", "suffix", NoExc, pos2, start, archive_size,
                     file_path, archive)
        ELSE
        LET output_path ==
                get_safe_to_save_path(
                    JoinOutputDir(WithSuffix(file_path, MsczSuffix)), fs)
            oe == OpenForWrite(output_path, ds)
        IN
        IF oe # NoExc
        THEN Outcome("raise", "open", oe, pos2, start, archive_size,
                     output_path, archive)
        ELSE Outcome("save", "saved", NoExc, pos2, start, archive_size,
                     output_path, archive)

LogEntry(p, o) ==
    [eocd |-> p, chunk_start |-> chunk_start, why |-> o.why,
     start |-> o.start, size |-> o.size, path |-> o.path]

(***************************************************************************)
(* main: the chunk loop                                                    *)
(***************************************************************************)

\* margin = len(zipfile.stringEndArchive) * 2
margin == Len(stringEndArchive) * 2

\* main up to the while loop, for a regular file that is not empty (its
\* st_size is the size that is used)
Start ==
    /\ pc = "Start"
    /\ chunk_start' = seek
    /\ chunk_end' = None
    /\ file_size' = Len(data)
    /\ parse_size' = IF parse_len # None THEN parse_len ELSE Len(data) - seek
    /\ pc' = "Loop"
    /\ UNCHANGED <<run, prev, data, seek, chunk_size, parse_len, dirs, files0, files,
                   exc, chunk, matches, fpos, reads, log>>

\* the cursor taken from the file handle, which candidate handling moves
NextChunkStart_from_handle ==
    IF chunk_end # None THEN fpos - margin ELSE chunk_start

\* chunk_start at the head of an iteration
NextChunkStart == IF chunk_end # None THEN chunk_end - margin ELSE chunk_start

\* bar(chunk_start - args.seek): progress = current / total
BarRaises == parse_size = 0

\* the head of an iteration when the progress bar divides by zero
BarFails ==
    /\ pc = "Loop"
    /\ BarRaises
    /\ chunk_start' = NextChunkStart
    /\ pc' = "Aborted"
    /\ exc' = [type |-> "ZeroDivisionError", line |-> 127]
    /\ UNCHANGED <<run, prev, data, seek, chunk_size, parse_len, dirs, files0, files,
                   file_size, parse_size, chunk_end, chunk, matches, fpos,
                   reads, log>>

\* f.seek(chunk_start); chunk = f.read(args.chunk_size); f.tell()
ReadAt(d, pos, n) == Slice(d, pos, pos + n)

\* an iteration whose read returns no more than margin bytes: Reached EOF
ReadEOF ==
    /\ pc = "Loop"
    /\ ~BarRaises
    /\ LET cs == NextChunkStart
           c == ReadAt(data, cs, chunk_size)
       IN  /\ Len(c) <= margin
           /\ chunk_start' = cs
           /\ chunk' = c
           /\ chunk_end' = cs + Len(c)
           /\ fpos' = cs + Len(c)
           /\ reads' = Append(reads, <<cs, cs + Len(c)>>)
    /\ pc' = "Done"
    /\ UNCHANGED <<run, prev, data, seek, chunk_size, parse_len, dirs, files0, files,
                   exc, file_size, parse_size, matches, log>>

\* an iteration that reads a chunk and starts the for loop over its matches
ReadChunk ==
    /\ pc = "Loop"
    /\ ~BarRaises
    /\ LET cs == NextChunkStart
           c == ReadAt(data, cs, chunk_size)
       IN  /\ Len(c) > margin
           /\ chunk_start' = cs
           /\ chunk' = c
           /\ chunk_end' = cs + Len(c)
           /\ fpos' = cs + Len(c)
           /\ reads' = Append(reads, <<cs, cs + Len(c)>>)
           /\ matches' = finditer(stringEndArchive, c)
    /\ pc' = "Matches"
    /\ UNCHANGED <<run, prev, data, seek, chunk_size, parse_len, dirs, files0, files,
                   exc, file_size, parse_size, log>>

\* the match the for loop visits next, as an absolute offset
CurrentMatch == chunk_start + Head(matches)

\* the handling that drops an archive whose first-choice output path is a
\* file already
CurrentOutcome_skip_existing ==
    LET o == HandleMatch(data, CurrentMatch, files, dirs)
        fresh == HandleMatch(data, CurrentMatch, [q \in {} |-> <<>>], dirs)
    IN  IF o.kind = "save" /\ fresh.path \in DOMAIN files
        THEN Outcome("skip", "exists", NoExc, o.fpos, o.start, o.size,
                     o.path, o.archive)
        ELSE o

CurrentOutcome == HandleMatch(data, CurrentMatch, files, dirs)

\* a match that is dropped: entry counts, no name, or another suffix
MatchSkip ==
    /\ pc = "Matches"
    /\ matches # <<>>
    /\ LET o == CurrentOutcome
       IN  /\ o.kind = "skip"
           /\ fpos' = o.fpos
           /\ log' = Append(log, LogEntry(CurrentMatch, o))
    /\ matches' = Tail(matches)
    /\ UNCHANGED <<run, prev, data, seek, chunk_size, parse_len, dirs, files0, files, pc,
                   exc, file_size, parse_size, chunk_start, chunk_end, chunk,
                   reads>>

\* a match whose archive is written to the output directory
MatchSave ==
    /\ pc = "Matches"
    /\ matches # <<>>
    /\ LET o == CurrentOutcome
       IN  /\ o.kind = "save"
           /\ fpos' = o.fpos
           /\ files' = [q \in DOMAIN files \cup {o.path} |->
                           IF q = o.path THEN o.archive ELSE files[q]]
           /\ log' = Append(log, LogEntry(CurrentMatch, o))
    /\ matches' = Tail(matches)
    /\ UNCHANGED <<run, prev, data, seek, chunk_size, parse_len, dirs, files0, pc, exc,
                   file_size, parse_size, chunk_start, chunk_end, chunk,
                   reads>>

\* a match whose handling raises: nothing in main catches it
MatchRaise ==
    /\ pc = "Matches"
    /\ matches # <<>>
    /\ LET o == CurrentOutcome
       IN  /\ o.kind = "raise"
           /\ fpos' = o.fpos
           /\ exc' = o.exc
           /\ log' = Append(log, LogEntry(CurrentMatch, o))
    /\ pc' = "Aborted"
    /\ UNCHANGED <<run, prev, data, seek, chunk_size, parse_len, dirs, files0, files,
                   file_size, parse_size, chunk_start, chunk_end, chunk,
                   matches, reads>>

\* the for loop is exhausted: back to the head of the while loop
EndOfMatches ==
    /\ pc = "Matches"
    /\ matches = <<>>
    /\ pc' = "Loop"
    /\ UNCHANGED <<run, prev, data, seek, chunk_size, parse_len, dirs, files0, files,
                   exc, file_size, parse_size, chunk_start, chunk_end, chunk,
                   matches, fpos, reads, log>>

(***************************************************************************)
(* Input streams.  A stream is laid out from filler bytes, ZIP archives    *)
(* with three stored (empty) entries, bare end-of-central-directory        *)
(* records and cut-off records.                                            *)
(***************************************************************************)

\* the largest number of filler bytes put in front of an archive
MaxPad == 6

\* the largest pad of the streams that are read in very small chunks
MaxSmallPad == 2

\* the number of times the program is run over one input
MaxRuns == 2

\* no run before this one
NoPrev == [pc |-> "none"]

\* the values of --parse-len of a later run: absent, 0, less than the input
ParseLens == {None, 0, 100}

Zeros(n) == [i \in 1..n |-> 0]

LE16(n) == <<n % 256, n \div 256>>

LE32(n) == LE16(n % 65536) \o LE16(n \div 65536)

\* a local file header of an empty stored entry, followed by its name
LocalHeader(name) ==
    stringFileHeader \o Zeros(22) \o LE16(Len(name)) \o LE16(0) \o name

\* a central directory header (PK\001\002) of the same entry
CentralHeader(name) ==
    <<80, 75, 1, 2>> \o Zeros(24) \o LE16(Len(name)) \o Zeros(16) \o name

\* an end-of-central-directory record and its comment
EndRecord(this, total, size, offset, comment) ==
    stringEndArchive \o LE16(0) \o LE16(0) \o LE16(this) \o LE16(total)
    \o LE32(size) \o LE32(offset) \o LE16(Len(comment)) \o comment

\* a ZIP archive of three entries whose record states the counts this/total
ZipWith(n1, n2, n3, this, total, comment) ==
    LET locals == LocalHeader(n1) \o LocalHeader(n2) \o LocalHeader(n3)
        central == CentralHeader(n1) \o CentralHeader(n2) \o CentralHeader(n3)
    IN  locals \o central
        \o EndRecord(this, total, Len(central), Len(locals), comment)

\* entry names: 'c' (container), 'p' (thumbnail) and the titles
NameC == <<99>>

NameP == <<112>>

\* 't.mscx'
TitleMscx == <<116, 46, 109, 115, 99, 120>>

\* 't.MSCX', 't.xml', '.mscx', 't', 'd/t.mscx', 't\xff.mscx', '\xc3\xa9.mscx'
OtherTitles ==
    { <<116, 46, 77, 83, 67, 88>>,
      <<116, 46, 120, 109, 108>>,
      <<46, 109, 115, 99, 120>>,
      <<116>>,
      <<100, 47, 116, 46, 109, 115, 99, 120>>,
      <<116, 255, 46, 109, 115, 99, 120>>,
      <<195, 169, 46, 109, 115, 99, 120>> }

MsczZip(title, comment) == ZipWith(NameC, title, NameP, 3, 3, comment)

GoodZip == MsczZip(TitleMscx, <<>>)

\* the path 't.mscz' and the directory 'd' below the output directory
PathT == << <<116, 46, 109, 115, 99, 122>> >>

PathT1 == << <<116, 95, 40, 49, 41, 46, 109, 115, 99, 122>> >>

DirD == << <<100>> >>

NoFiles == [q \in {} |-> <<>>]

OldFiles(paths) == [q \in paths |-> <<0>>]

\* args.chunk_size: the default of the parser, and sizes that put a chunk
\* boundary on or next to the record of an archive in the stream
DefaultChunkSize == 16000000

Input(d, s, c, pl, ds, fs) ==
    [data |-> d, seek |-> s, chunk_size |-> c, parse_len |-> pl,
     dirs |-> ds, files |-> fs]

\* one archive behind 0..MaxPad filler bytes, read in one chunk or in chunks
\* of 250 bytes (the record's signature is at 244 + pad)
PlacementInputs ==
    { Input(Zeros(pad) \o GoodZip \o Zeros(tail), 0, c, None, {}, fs) :
        pad \in 0..MaxPad, tail \in {0, 3},
        c \in {250, DefaultChunkSize},
        fs \in {NoFiles, OldFiles({PathT})} }

\* the same read in chunks of 8, 9 and 12 bytes
SmallChunkInputs ==
    { Input(Zeros(pad) \o GoodZip, 0, c, None, {}, NoFiles) :
        pad \in 0..MaxSmallPad, c \in {8, 9, 12} }

\* an archive with a two-byte comment
CommentInputs ==
    { Input(Zeros(pad) \o MsczZip(TitleMscx, <<104, 105>>) \o Zeros(tail),
            0, DefaultChunkSize, None, {}, NoFiles) :
        pad \in 0..MaxPad, tail \in {0, 3} }

\* archives whose second entry has another name
TitleInputs ==
    { Input(Zeros(pad) \o MsczZip(t, <<>>), 0, DefaultChunkSize, None, ds,
            NoFiles) :
        pad \in {0, 5}, t \in OtherTitles, ds \in {{}, {DirD}} }

\* archives whose record states other entry counts
CountInputs ==
    { Input(Zeros(pad) \o ZipWith(NameC, TitleMscx, NameP, ct[1], ct[2], <<>>)
            \o GoodZip,
            0, DefaultChunkSize, None, {}, NoFiles) :
        pad \in {0, 5},
        ct \in {<<2, 3>>, <<3, 2>>, <<2, 2>>, <<4, 4>>, <<0, 0>>, <<3, 4>>} }

\* a bare 3/3 record in front of an archive: one that places the start of
\* its archive before the start of the input, one that spans only itself,
\* a second local file header cut short by the record, and a span of one
\* local file header
BareRecordInputs ==
    { Input(Zeros(pad) \o EndRecord(3, 3, 0, off, <<>>) \o GoodZip,
            0, c, None, {}, NoFiles) :
        pad \in 0..MaxPad, off \in {0, 40}, c \in {250, DefaultChunkSize} }
    \cup
    { Input(LocalHeader(NameC) \o stringFileHeader
            \o EndRecord(3, 3, 0, 35, <<>>) \o GoodZip,
            0, DefaultChunkSize, None, {}, NoFiles) }
    \cup
    { Input(LocalHeader(NameC) \o EndRecord(3, 3, 0, 31, <<>>) \o GoodZip,
            0, DefaultChunkSize, None, {}, NoFiles) }

\* an archive followed by a record that the end of the input cuts off
TruncatedInputs ==
    { Input(Zeros(pad) \o GoodZip \o Zeros(gap)
            \o SubSeq(EndRecord(3, 3, 0, 0, <<>>), 1, k),
            IF after THEN pad + Len(GoodZip) ELSE 0, DefaultChunkSize, None,
            {}, NoFiles) :
        pad \in {0, 5}, gap \in {0, 20}, k \in {4, 10, 21},
        after \in BOOLEAN }

\* two archives with the same title, into output directories that hold
\* files of that title already
CollisionInputs ==
    { Input(GoodZip \o Zeros(pad) \o GoodZip, 0, DefaultChunkSize, None, {},
            fs) :
        pad \in {0, 5},
        fs \in {NoFiles, OldFiles({PathT}), OldFiles({PathT, PathT1}),
                OldFiles({PathT1})} }

\* seek offsets up to and past the end of the input, with and without
\* --parse-len
SeekInputs ==
    { Input(d, s, DefaultChunkSize, pl, {}, NoFiles) :
        d \in {GoodZip, Zeros(3) \o GoodZip \o Zeros(3)},
        s \in {1, 100, 244, 260, 266, 269, 272, 280},
        pl \in {None, 1000} }

\* the path 't.mscz' for k = 0 and 't_(k).mscz' for k > 0
CounterPath(k) ==
    << <<116>> \o (IF k = 0 THEN <<>> ELSE <<95, 40>> \o IntToDigits(k) \o <<41>>)
       \o MsczSuffix >>

\* one archive into an output directory that holds 't.mscz' and the files
\* 't_(1).mscz' to 't_(n).mscz' already
ManyOldInputs ==
    { Input(GoodZip, 0, DefaultChunkSize, None, {},
            OldFiles({CounterPath(i) : i \in 0..n})) : n \in {8, 9} }

\* bare records in short streams read in very small chunks
SmallStreamInputs ==
    { Input(Zeros(pad) \o EndRecord(ct, ct, 0, 0, <<>>) \o Zeros(tail),
            s, c, None, {}, NoFiles) :
        pad \in 0..MaxSmallPad, ct \in {2, 3}, tail \in {0, 9},
        s \in {0, 1}, c \in {9, 10, 12, 13} }

Inputs ==
    PlacementInputs \cup SmallChunkInputs \cup CommentInputs \cup TitleInputs
    \cup CountInputs \cup BareRecordInputs \cup TruncatedInputs
    \cup CollisionInputs \cup SeekInputs \cup SmallStreamInputs
    \cup ManyOldInputs

(***************************************************************************)
(* The specification                                                       *)
(***************************************************************************)

Init ==
    /\ \E in \in Inputs :
          /\ data = in.data
          /\ seek = in.seek
          /\ chunk_size = in.chunk_size
          /\ parse_len = in.parse_len
          /\ dirs = in.dirs
          /\ files0 = in.files
          /\ files = in.files
    /\ pc = "Start"
    /\ exc = NoExc
    /\ file_size = 0
    /\ parse_size = 0
    /\ chunk_start = None
    /\ chunk_end = None
    /\ chunk = <<>>
    /\ matches = <<>>
    /\ fpos = 0
    /\ reads = <<>>
    /\ log = <<>>
    /\ run = 1
    /\ prev = NoPrev

\* the archives a run has written: span and bytes of the file, in order
WrittenArchives ==
    LET saved == SelectSeq(log, LAMBDA e : e.why = "saved")
    IN  [i \in 1..Len(saved) |->
            [start |-> saved[i].start, size |-> saved[i].size,
             bytes |-> files[saved[i].path]]]

\* The program is started again over the same input with the same --seek
\* and --chunk-size and any --parse-len: nothing but the output directory
\* is kept from the run before.
Rerun ==
    /\ pc \in {"Done", "Aborted"}
    /\ run < MaxRuns
    /\ run' = run + 1
    /\ prev' = [pc |-> pc, exc |-> exc, parse_len |-> parse_len,
                reads |-> reads, archives |-> WrittenArchives]
    /\ parse_len' \in ParseLens \cup {parse_len}
    /\ files0' = files
    /\ pc' = "Start"
    /\ exc' = NoExc
    /\ file_size' = 0
    /\ parse_size' = 0
    /\ chunk_start' = None
    /\ chunk_end' = None
    /\ chunk' = <<>>
    /\ matches' = <<>>
    /\ fpos' = 0
    /\ reads' = <<>>
    /\ log' = <<>>
    /\ UNCHANGED <<data, seek, chunk_size, dirs, files>>

Next ==
    \/ Start
    \/ BarFails
    \/ ReadEOF
    \/ ReadChunk
    \/ MatchSkip
    \/ MatchSave
    \/ MatchRaise
    \/ EndOfMatches
    \/ Rerun

Spec == Init /\ [][Next]_vars

(***************************************************************************)
(* Properties                                                              *)
(***************************************************************************)

Terminal == pc \in {"Done", "Aborted"}

\* the matches that led to a written archive, in the order of the run
Saved == SelectSeq(log, LAMBDA e : e.why = "saved")

\* every offset of the input at which the EOCD signature occurs
SignatureOffsets ==
    {i \in 0..(Len(data) - Len(stringEndArchive)) :
        MatchAt(data, stringEndArchive, i)}

\* the for loop is about to visit a match
AtMatch == pc = "Matches" /\ matches # <<>>

\* the fields of the record at offset p, read from the input directly
CountsAt(p) == <<U16(data, p + 8), U16(data, p + 10)>>

SpanLengthAt(p) ==
    U32(data, p + 12) + U32(data, p + 16) + U16(data, p + 20) + 22

SpanStartAt(p) == p + 22 - SpanLengthAt(p)

\* the match is dropped and the for loop goes on with the next one
Discarded ==
    /\ pc' = "Matches"
    /\ exc' = NoExc
    /\ files' = files
    /\ matches' = Tail(matches)

\* An independent reading of an input that holds exactly one EOCD
\* signature: the record is whole, states 3/3 entries, three local file
\* headers follow each other from the start of the archive up to the
\* central directory, and the name of the second ends in '.mscx'.
TheRecord == CHOOSE q \in SignatureOffsets : TRUE

ZipStart == TheRecord - U32(data, TheRecord + 12) - U32(data, TheRecord + 16)

ZipEnd == TheRecord + 22 + U16(data, TheRecord + 20)

LocalEnd(h) ==
    h + 30 + U16(data, h + 26) + U16(data, h + 28) + U32(data, h + 18)

HoldsOneMscxZip ==
    /\ Cardinality(SignatureOffsets) = 1
    /\ TheRecord + 22 <= Len(data)
    /\ CountsAt(TheRecord) = <<3, 3>>
    /\ ZipStart >= 0
    /\ ZipEnd <= Len(data)
    /\ LET h1 == ZipStart
           h2 == LocalEnd(h1)
           h3 == LocalEnd(h2)
           n2 == Slice(data, h2 + 30, h2 + 30 + U16(data, h2 + 26))
       IN  /\ MatchAt(data, stringFileHeader, h1)
           /\ MatchAt(data, stringFileHeader, h2)
           /\ MatchAt(data, stringFileHeader, h3)
           /\ LocalEnd(h3) = ZipStart + U32(data, TheRecord + 16)
           /\ Len(n2) > 5
           /\ SubSeq(n2, Len(n2) - 4, Len(n2)) = MscxSuffix

\* C1: a complete scan of an input that holds one well-formed three-entry
\* archive whose second name ends in '.mscx', at or after the seek offset,
\* emits exactly one archive, and its bytes are the span of that archive
\* (stated for the chunk sizes above the overlap margin).
C1_OneArchiveExactSpan ==
    (pc = "Done" /\ chunk_size > margin /\ HoldsOneMscxZip /\ ZipStart >= seek)
    => /\ Len(Saved) = 1
       /\ Saved[1].start = ZipStart
       /\ Saved[1].start + Saved[1].size = ZipEnd
       /\ files[Saved[1].path] = Slice(data, ZipStart, ZipEnd)

\* C2: with a chunk size above the overlap margin, when the run has ended
\* every EOCD signature at or after the seek offset has been whole in a
\* chunk that was read and has been visited by the for loop, and every
\* visit of one signature computed the same span.
C2_NoSignatureMissed ==
    (Terminal /\ chunk_size > margin)
    => /\ \A p \in SignatureOffsets :
            p >= seek =>
              /\ \E i \in 1..Len(reads) :
                    reads[i][1] <= p /\ p + 4 <= reads[i][2]
              /\ \E i \in 1..Len(log) : log[i].eocd = p
       /\ \A i, j \in 1..Len(log) :
            log[i].eocd = log[j].eocd =>
              log[i].start = log[j].start /\ log[i].size = log[j].size

\* C3: one EOCD signature occurrence leads to at most one emitted archive.
C3_NoDuplicateArchive ==
    \A i, j \in 1..Len(Saved) : Saved[i].eocd = Saved[j].eocd => i = j

\* C4: a match with fewer than 22 bytes left before the end of the input is
\* discarded: nothing is emitted, the scan is not aborted and the for loop
\* goes on with the next match.
C4_TruncatedRecordDiscarded ==
    [][ (AtMatch /\ Len(data) - CurrentMatch < 22) => Discarded ]_vars

\* C5: a 3/3 match whose computed start offset is negative is discarded:
\* nothing is emitted, the scan is not aborted and the for loop goes on with
\* the next match.
C5_NegativeSpanDiscarded ==
    [][ (/\ AtMatch
         /\ CurrentMatch + 22 <= Len(data)
         /\ CountsAt(CurrentMatch) = <<3, 3>>
         /\ SpanLengthAt(CurrentMatch) > CurrentMatch + 22) => Discarded ]_vars

\* the bytes that the code reads back for a 3/3 match at p
SpanAt(p) == Slice(data, SpanStartAt(p), p + 22)

\* the match at p passes the entry-count check and its span can be read
SpanReadAt(p) ==
    /\ p + 22 <= Len(data)
    /\ CountsAt(p) = <<3, 3>>
    /\ SpanStartAt(p) >= 0

\* the second local file header of an archive buffer is whole
HasSecondHeader(archive) ==
    LET hdrs == finditer(stringFileHeader, archive)
    IN  Len(hdrs) >= 2 /\ hdrs[2] + 30 <= Len(archive)

\* the name bytes that follow the second local file header
SecondNameBytes(archive) ==
    LET h == finditer(stringFileHeader, archive)[2]
    IN  Slice(archive, h + 30, h + 30 + U16(archive, h + 26))

\* C6: when the name bytes of the second local file header are not valid
\* UTF-8, get_mscx_filename returns them unmodified and the candidate does
\* not abort the scan.
C6_NameDecodePermissive ==
    [][ (/\ AtMatch
         /\ SpanReadAt(CurrentMatch)
         /\ HasSecondHeader(SpanAt(CurrentMatch))
         /\ ~Utf8Valid(SecondNameBytes(SpanAt(CurrentMatch))))
        => /\ get_mscx_filename(SpanAt(CurrentMatch)).kind # "raise"
           /\ get_mscx_filename(SpanAt(CurrentMatch)).value
                = SecondNameBytes(SpanAt(CurrentMatch))
           /\ pc' # "Aborted" ]_vars

\* C7: a scan of a non-empty input that starts at the seek offset equal to
\* the length of the input, without --parse-len, raises nothing, and ends
\* in Done after one empty read with no archive emitted.
C7_SeekAtEndIsClean ==
    (Len(data) > 0 /\ seek = Len(data) /\ parse_len = None)
    => /\ pc # "Aborted"
       /\ pc = "Done" => (reads = <<(<<seek, seek>>)>> /\ files = files0)

\* C8: a match whose two entry counts are not both 3 emits nothing and the
\* for loop goes on with the next match; a file is written only while a
\* match with both counts equal to 3 is handled.
C8_OnlyThreeEntryRecords ==
    [][ /\ (AtMatch /\ CurrentMatch + 22 <= Len(data)
                    /\ CountsAt(CurrentMatch) # <<3, 3>>) => Discarded
        /\ files' # files => (AtMatch /\ CurrentMatch + 22 <= Len(data)
                                      /\ CountsAt(CurrentMatch) = <<3, 3>>)
      ]_vars

\* a record with other counts was dropped and a later match was written
C8_Witness ==
    \E i, j \in 1..Len(log) :
        /\ i < j
        /\ log[i].why = "count"
        /\ CountsAt(log[i].eocd) # <<3, 3>>
        /\ log[j].why = "saved"
        /\ log[j].path \in DOMAIN files

\* the name get_mscx_filename extracts for the 3/3 match at p has the
\* extension '.mscx'
NamedMscxAt(p) ==
    /\ SpanReadAt(p)
    /\ get_mscx_filename(SpanAt(p)).kind = "str"
    /\ PathSuffix(PathParts(get_mscx_filename(SpanAt(p)).value)) = MscxSuffix

\* C9: a candidate that passed the entry-count check is written to the
\* output if and only if the name extracted from its second local file
\* header has the extension '.mscx'.
C9_AcceptedIffMscxName ==
    [][ (AtMatch /\ CurrentMatch + 22 <= Len(data)
                 /\ CountsAt(CurrentMatch) = <<3, 3>>)
        => (NamedMscxAt(CurrentMatch) <=> DOMAIN files' # DOMAIN files) ]_vars

LeastFree(fs) ==
    CHOOSE k \in 0..Cardinality(DOMAIN fs) :
        /\ CounterPath(k) \notin DOMAIN fs
        /\ \A j \in 0..(k - 1) : CounterPath(j) \in DOMAIN fs

\* the name extracted for the match at p is 't.mscx'
NamedTAt(p) ==
    NamedMscxAt(p) /\ get_mscx_filename(SpanAt(p)).value = TitleMscx

C12_RunsAgree ==
    (run > 1 /\ Terminal /\ prev.parse_len = parse_len)
    => /\ pc = prev.pc
       /\ reads = prev.reads
       /\ WrittenArchives = prev.archives

\* a second complete run found the files of the first in the output
\* directory, read two chunks and wrote an archive
C12_Witness ==
    /\ run = 2
    /\ pc = "Done"
    /\ prev.pc = "Done"
    /\ prev.parse_len = parse_len
    /\ files0 # NoFiles
    /\ Len(reads) >= 2
    /\ Len(WrittenArchives) >= 1
    /\ WrittenArchives = prev.archives

\* C13: a run with any --parse-len (absent, 0, smaller than the input) reads
\* the same chunks and writes the same archives as a run over the same input
\* with the same --seek and --chunk-size and another --parse-len, and a run
\* with --parse-len ends at the end of the input (stated for a chunk size
\* above the overlap margin and a seek offset inside the input).
C13_ParseLenDisplayOnly ==
    /\ (run > 1 /\ Terminal)
       => (reads = prev.reads /\ WrittenArchives = prev.archives)
    /\ (pc = "Done" /\ parse_len # None /\ chunk_size > margin
                    /\ seek <= Len(data))
       => reads[Len(reads)][2] = Len(data)

\* the reads that were scanned for signatures: longer than the margin
ScannedReads == {i \in 1..Len(reads) : reads[i][2] - reads[i][1] > margin}

\* the last chunk read: <<chunk_start, chunk_end>>
LastRead == reads[Len(reads)]

\* C14: the driver is Done exactly after a read of no more than 8 bytes, and
\* then the input is exhausted: the last read ends at the end of the input
\* and every byte from the seek offset on lies in a chunk that was scanned
\* (stated for a seek offset inside the input).
C14_DoneMeansExhausted ==
    /\ (pc = "Done") => (LastRead[2] - LastRead[1] <= margin)
    /\ (pc = "Matches") => (LastRead[2] - LastRead[1] > margin)
    /\ (pc = "Done" /\ seek <= Len(data))
       => /\ LastRead[2] = Len(data)
          /\ \A b \in (seek + 1)..Len(data) :
                \E i \in ScannedReads : reads[i][1] < b /\ b <= reads[i][2]

\* the exceptions of the file system: a seek or an open that fails
IOFailures == {"OSError", "FileNotFoundError", "IsADirectoryError"}

\* the run has ended by an I/O failure
IOFailed == pc = "Aborted" /\ exc.type \in IOFailures

\* C15: no run ends otherwise than in Done unless an I/O failure ends it
\* (once Aborted, an exception has left main and no step of the run is left),
\* and every iteration after the first that does not reach Done starts at a
\* chunk_start strictly greater than the one before.
C15_ScanTerminates ==
    /\ [][(pc = "Loop" /\ pc' = "Matches" /\ reads # <<>>)
            => chunk_start' > chunk_start]_vars
    /\ [](pc = "Aborted" => IOFailed)

\* C16: an iteration after the first starts at the end of the chunk before
\* it minus 8, and the handling of candidates (the re-read of the record,
\* the backward seek, the read of the span) changes neither chunk_start nor
\* chunk_end nor the chunk.
C16_CursorOnlyByReads ==
    /\ [][(pc = "Loop" /\ reads # <<>> /\ Len(reads') = Len(reads) + 1)
            => /\ chunk_end = chunk_start + Len(chunk)
               /\ chunk_start' = chunk_end - margin
               /\ reads'[Len(reads')][1] = LastRead[2] - margin]_vars
    /\ [][(pc = "Matches" /\ pc' # "Start")
            => /\ chunk_start' = chunk_start
               /\ chunk_end' = chunk_end
               /\ chunk' = chunk]_vars

\* a candidate of the first chunk was written, which left the file handle
\* before the end of that chunk, and a second chunk was read
C16_Witness ==
    /\ Len(reads) >= 2
    /\ reads[2][1] = reads[1][2] - margin
    /\ Len(log) >= 1
    /\ log[1].chunk_start = reads[1][1]
    /\ log[1].why = "saved"
    /\ log[1].eocd + sizeEndCentDir < reads[1][2]

\* the log entries of the candidates that passed the entry-count check
PastCountCheck == {i \in 1..Len(log) : log[i].why \notin {"eocd", "count"}}

\* C17: a candidate that passes the entry-count check has the span length
\* size + offset + comment length + 22 of its record and the span start
\* (eocd + 22) - length, so the span ends just past the 22-byte record; a
\* written archive is the input bytes [start, start + length) and its last
\* 22 bytes are the record at the match.
C17_SpanFormula ==
    /\ \A i \in PastCountCheck :
          /\ log[i].size = U32(data, log[i].eocd + 12)
                            + U32(data, log[i].eocd + 16)
                            + U16(data, log[i].eocd + 20) + 22
          /\ log[i].start = (log[i].eocd + 22) - log[i].size
          /\ log[i].start + log[i].size = log[i].eocd + 22
    /\ \A i \in 1..Len(log) :
          log[i].why = "saved"
          => LET a == files[log[i].path]
             IN  /\ Len(a) = log[i].size
                 /\ \A k \in 1..Len(a) : a[k] = data[log[i].start + k]
                 /\ SubSeq(a, Len(a) - 21, Len(a))
                      = Slice(data, log[i].eocd, log[i].eocd + 22)
                 /\ SubSeq(a, Len(a) - 21, Len(a) - 18) = stringEndArchive

\* an archive whose record states a comment was written
C17_Witness ==
    /\ pc = "Done"
    /\ \E i \in 1..Len(log) :
          /\ log[i].why = "saved"
          /\ U16(data, log[i].eocd + 20) > 0
          /\ log[i].start > 0

\* the archive buffer up to the end of the name of its second local file
\* header
UpToSecondName(archive) ==
    LET h == finditer(stringFileHeader, archive)[2]
    IN  Slice(archive, 0, h + 30 + U16(archive, h + 26))

\* C18: for an archive buffer with fewer than two local-file-header
\* signatures get_mscx_filename returns None and the candidate is dropped
\* without ending the scan; for a buffer with a whole second header it
\* returns the name of that header, the n bytes after its 30 bytes with n
\* the field at +26, and what follows that name does not change the result.
C18_SecondHeaderName ==
    [][ (AtMatch /\ SpanReadAt(CurrentMatch))
        => LET a == SpanAt(CurrentMatch)
               r == get_mscx_filename(a)
           IN  /\ Len(finditer(stringFileHeader, a)) < 2
                  => (r.kind = "none" /\ Discarded)
               /\ HasSecondHeader(a)
                  => /\ r.kind = "str"
                     /\ r.value = Utf8Decode(SecondNameBytes(a))
                     /\ get_mscx_filename(UpToSecondName(a)) = r ]_vars

====
